---- MODULE Spec2Model ----
(***************************************************************************)
(* Cycle-level model of the shared Wishbone interconnect of                *)
(* migen/bus/wishbone.py: Arbiter (round-robin grant, master->slave mux,   *)
(* gated slave->master return), Decoder (address comparators, optional     *)
(* flip-flops on the selection, cyc fan-out, ack/err OR, one-hot data      *)
(* mux) and InterconnectShared (their composition on the "shr" trunk).     *)
(*                                                                         *)
(* A clock cycle is three steps: MastersDrive (the masters present cyc_o   *)
(* and adr_o), SlavesRespond (the slaves present ack_o, err_o, dat_o) and  *)
(* Tick (the synchronous statements latch).  Every signal the fragments    *)
(* assign combinatorially is an operator over the current state.           *)
(*                                                                         *)
(* migen.corelogic.roundrobin is not among the source files: rr_evaluate   *)
(* and the rotation pointer follow the arbiter contract of the             *)
(* specification (section 4.1).                                            *)
(***************************************************************************)
EXTENDS Integers, Sequences, FiniteSets, TLC

\* Width of adr_o/adr_i. The bus declares 32 (wishbone.py line 8); the model
\* keeps the decoded upper bits and scales the rest away.
AdrWidth == 2

\* Width of dat_o/dat_i, scaled down from 32 (wishbone.py line 10).
DatWidth == 1

\* "no grant": the arbiter's grant before any request was granted, and the
\* result of an evaluation with no request bit set.
NoGrant == -1

Bit == {0, 1}

Pow2(n) == 2 ^ n

Min(S) == CHOOSE x \in S : \A y \in S : x <= y

Max(S) == CHOOSE x \in S : \A y \in S : x >= y

\* Addresses the masters drive: the high bit clear or set, the bits below it
\* all clear or all set.
AdrValues ==
    {0, Pow2(AdrWidth - 1) - 1, Pow2(AdrWidth - 1), Pow2(AdrWidth) - 1}

\* Data words the slaves drive: all bits clear, all bits set.
DatValues == {0, Pow2(DatWidth) - 1}

---------------------------------------------------------------------------
(* Bit-vector operators of the FHDL expressions used by the fragments.     *)

RECURSIVE BitOr(_, _)
BitOr(a, b) ==
    IF a = 0 THEN b
    ELSE IF b = 0 THEN a
    ELSE (IF a % 2 = 1 \/ b % 2 = 1 THEN 1 ELSE 0) + 2 * BitOr(a \div 2, b \div 2)

RECURSIVE BitAnd(_, _)
BitAnd(a, b) ==
    IF a = 0 \/ b = 0 THEN 0
    ELSE (IF a % 2 = 1 /\ b % 2 = 1 THEN 1 ELSE 0) + 2 * BitAnd(a \div 2, b \div 2)

\* Replicate(b, w): the bit b repeated w times.
Replicate(b, w) == b * (Pow2(w) - 1)

\* x[lo:hi]: bits lo (included) to hi (excluded) of x.
Slice(x, lo, hi) == (x \div Pow2(lo)) % Pow2(hi - lo)

---------------------------------------------------------------------------
(* Address constants of a slave list.                                      *)

\* structure.Constant(v, BV(w)).
Const(v, w) == [value |-> v, width |-> w, isint |-> FALSE]

\* A plain Python int given as a slave address.
PyInt(v) == [value |-> v, width |-> 0, isint |-> TRUE]

\* bits_for(n) of migen.fhdl.structure: the width of a Constant, else the
\* number of bits that hold n (1 for 0).
RECURSIVE int_bits(_)
int_bits(n) == IF n < 2 THEN 1 ELSE 1 + int_bits(n \div 2)

bits_for(x) == IF ~x.isint THEN x.width ELSE int_bits(x.value)

\* Decoder.__init__: maxbits over the slave addresses.
maxbits(sl) == Max({bits_for(sl[i]) : i \in DOMAIN sl})

\* Decoder.__init__: mkconst turns an int into a Constant of maxbits bits and
\* leaves a Constant as it is.
\* Mutant of mkconst: every entry is coerced to the common maximum width.
mkconst_maxwidth(x, mb) == Const(x.value, mb)

mkconst(x, mb) == IF x.isint THEN Const(x.value, mb) ELSE x

Pair(a, b) == [i \in 0 .. 1 |-> IF i = 0 THEN a ELSE b]

\* Slave lists handed to the constructor (entry i is slave i).
Tables ==
    { Pair(PyInt(0), PyInt(1)),              \* "0" and "1"
      Pair(Const(0, 1), Const(2, 2)),    \* "0" and "10": differing widths
      Pair(PyInt(0), PyInt(2)),              \* "00" and "10" after mkconst
      Pair(Const(0, 1), Const(1, 2)) }   \* "0" and "01": both match 01...

\* Master counts handed to the constructor.
MasterCounts == {2, 3}

\* The comparators slice adr_o[hi-width:hi]: the slice must lie in adr_o.
FitsWindow(sl, off) == off + maxbits(sl) <= AdrWidth

\* Offsets handed to the constructor.
Offsets == {0, 1}

\* The fabrics explored. Three masters are paired with one decoder only: the
\* arbiter never reads the decoder's configuration.
Configs ==
    { c \in [n : MasterCounts, slaves : Tables, offset : Offsets,
             register : BOOLEAN] :
        /\ FitsWindow(c.slaves, c.offset)
        /\ c.n = 3 =>
             (c.slaves = Pair(PyInt(0), PyInt(1)) /\ c.offset = 0 /\ ~c.register) }

---------------------------------------------------------------------------
VARIABLES
    masters,        \* indices of the master ports (Arbiter.masters)
    slaves,         \* the slave list: address constant of each slave
    offset,         \* Decoder.offset
    register,       \* Decoder.register
    addresses,      \* Decoder.addresses, set by the constructor
    pc,             \* "new", "drive", "respond", "settled"
    cyc_o,          \* masters' cyc_o
    adr_o,          \* masters' adr_o
    ack_o,          \* slaves' ack_o
    err_o,          \* slaves' err_o
    dat_o,          \* slaves' dat_o
    previous_grant, \* the arbiter's rotation pointer
    sel_r_ff,       \* the flip-flops of _slave_sel_r (register mode)
    prev_cyc_o,     \* history: the masters' cyc_o of the previous cycle
    prev_sel,       \* history (register mode): _slave_sel of the previous cycle
    prev_dat_o,     \* history (register mode): dat_o, in the previous cycle,
                    \* of the slaves _slave_sel selected then (0 for the others)
    granted_hist,   \* history: grants of the current run of cycles in which
                    \* every master requests (the last N of them)
    hold,           \* handshake discipline of each master (SpecLive only)
    wait            \* cycles each slave has left cyc_i unanswered (SpecLive only)

vars == <<masters, slaves, offset, register, addresses, pc, cyc_o, adr_o,
          ack_o, err_o, dat_o, previous_grant, sel_r_ff,
          prev_cyc_o, prev_sel, prev_dat_o, granted_hist, hold, wait>>

config == <<masters, slaves, offset, register>>

history == <<prev_cyc_o, prev_sel, prev_dat_o, granted_hist>>

discipline == <<hold, wait>>

\* A master is free to start a cycle, must hold its unanswered cycle, or must
\* drop cyc after the ack it observed.
Free == [st |-> "free", adr |-> 0]

Holds(a) == [st |-> "hold", adr |-> a]

Drop == [st |-> "drop", adr |-> 0]

Slaves == DOMAIN slaves

N == Cardinality(masters)

Constructed == pc # "new"

Zeros(S) == [i \in S |-> 0]

---------------------------------------------------------------------------
(* Round-robin arbiter (specification section 4.1).                        *)

\* Scan the request bits in rotating order starting right after `previous`
\* (at 0 when nothing was granted yet); the first set bit is the grant.
rr_evaluate(request, previous) ==
    LET n        == Cardinality(DOMAIN request)
        order(k) == (previous + 1 + k) % n
        hits     == {k \in 0 .. n - 1 : request[order(k)] = 1}
    IN  IF hits = {} THEN NoGrant ELSE order(Min(hits))

\* Mutant of rr_request: the request list is built without the first master.
rr_request_skip0 == [i \in masters |-> IF i = 0 THEN 0 ELSE cyc_o[i]]

\* Mutant of rr_request: the request bits are concatenated in reverse order.
rr_request_reversed == [i \in masters |-> cyc_o[N - 1 - i]]

\* Arbiter.get_fragment: rr.request is Cat(cyc_o of every master).
rr_request == [i \in masters |-> cyc_o[i]]

\* The arbiter's evaluation this cycle: an index, or NoGrant.
grant == rr_evaluate(rr_request, previous_grant)

\* rr.grant as the fragments read it: an index of ceil(log2 N) bits. With no
\* request it keeps the pointer's index (index 0 before the first grant).
rr_grant ==
    LET g == grant
    IN  IF g # NoGrant THEN g
        ELSE IF previous_grant = NoGrant THEN 0 ELSE previous_grant

---------------------------------------------------------------------------
(* Arbiter.get_fragment: master -> trunk mux.                              *)

shared_cyc_o == cyc_o[rr_grant]

\* Mutant of shared_adr_o: the trunk is wired to master 0, not multiplexed.
shared_adr_o_master0 == adr_o[0]

shared_adr_o == adr_o[rr_grant]

---------------------------------------------------------------------------
(* Decoder.get_fragment.                                                   *)

hi == AdrWidth - offset

\* _slave_sel[i] = (adr_o[hi-width:hi] == addresses[i])
slave_sel ==
    LET adr == shared_adr_o
    IN  [i \in Slaves |->
            IF Slice(adr, hi - addresses[i].width, hi) = addresses[i].value
            THEN 1 ELSE 0]

\* Mutant of slave_sel_r: the flip-flops are bypassed in register mode too.
slave_sel_r_unregistered == slave_sel

\* _slave_sel_r: flip-flops in register mode, else _slave_sel itself.

slave_sel_r == IF register THEN sel_r_ff ELSE slave_sel

\* Mutant of s_cyc_i: cyc is combined with the registered selection.
s_cyc_i_registered == [i \in Slaves |-> BitAnd(shared_cyc_o, slave_sel_r[i])]

\* Mutant of s_cyc_i: cyc fans out like the other master->slave signals.
s_cyc_i_unselected == [i \in Slaves |-> shared_cyc_o]

\* slave.cyc_i = master.cyc_o & _slave_sel[i]
s_cyc_i ==
    LET cyc == shared_cyc_o
        sel == slave_sel
    IN  [i \in Slaves |-> BitAnd(cyc, sel[i])]

\* slave.adr_i = master.adr_o, for every slave
s_adr_i ==
    LET adr == shared_adr_o
    IN  [i \in Slaves |-> adr]

RECURSIVE OrAll(_, _)
OrAll(f, S) ==
    IF S = {} THEN 0
    ELSE LET i == Min(S) IN BitOr(f[i], OrAll(f, S \ {i}))

\* Mutant of shared_ack_i: only the first slave's ack_o is returned.
shared_ack_i_first == ack_o[0]

\* master.ack_i = OR of every slave's ack_o
shared_ack_i == OrAll(ack_o, Slaves)

\* master.err_i = OR of every slave's err_o
shared_err_i == OrAll(err_o, Slaves)

\* Mutant of shared_dat_i: the data words are ORed without the selection mask.
shared_dat_i_unmasked == OrAll(dat_o, Slaves)

\* master.dat_i = OR of Replicate(_slave_sel_r[i], width) & slave.dat_o
shared_dat_i ==
    LET sel == slave_sel_r
    IN  OrAll([i \in Slaves |-> BitAnd(Replicate(sel[i], DatWidth), dat_o[i])],
              Slaves)

---------------------------------------------------------------------------
(* Arbiter.get_fragment: trunk -> master return.                           *)

GrantIs(i) == IF rr_grant = i THEN 1 ELSE 0

\* Mutant of m_ack_i: ack_i is connected like dat_i, without the grant gate.
m_ack_i_ungated == [i \in masters |-> shared_ack_i]

\* ack_i = source & (rr.grant == i)
m_ack_i ==
    LET source == shared_ack_i
    IN  [i \in masters |-> BitAnd(source, GrantIs(i))]

\* Mutant of m_err_i: err_i is connected like dat_i, without the grant gate.
m_err_i_ungated == [i \in masters |-> shared_err_i]

\* err_i = source & (rr.grant == i)
m_err_i ==
    LET source == shared_err_i
    IN  [i \in masters |-> BitAnd(source, GrantIs(i))]

\* Mutant of m_dat_i: dat_i is gated by the grant like ack_i.
m_dat_i_gated ==
    [i \in masters |-> BitAnd(shared_dat_i, Replicate(GrantIs(i), DatWidth))]

\* dat_i = source
m_dat_i ==
    LET source == shared_dat_i
    IN  [i \in masters |-> source]

---------------------------------------------------------------------------
(* Actions.                                                                *)

Init ==
    /\ \E c \in Configs :
        /\ masters = 0 .. c.n - 1
        /\ slaves = c.slaves
        /\ offset = c.offset
        /\ register = c.register
    /\ addresses = << >>
    /\ pc = "new"
    /\ cyc_o = Zeros(masters)
    /\ adr_o = Zeros(masters)
    /\ ack_o = Zeros(Slaves)
    /\ err_o = Zeros(Slaves)
    /\ dat_o = Zeros(Slaves)
    /\ previous_grant = NoGrant
    /\ sel_r_ff = Zeros(Slaves)
    /\ prev_cyc_o = Zeros(masters)
    /\ prev_sel = Zeros(Slaves)
    /\ prev_dat_o = Zeros(Slaves)
    /\ granted_hist = << >>
    /\ hold = [i \in masters |-> Free]
    /\ wait = Zeros(Slaves)

\* InterconnectShared.__init__ -> Arbiter.__init__, Decoder.__init__: the
\* address constants are resolved; no entry is compared with another.
Construct ==
    /\ pc = "new"
    /\ addresses = << >>
    /\ addresses' = [i \in Slaves |-> mkconst(slaves[i], maxbits(slaves))]
    /\ pc' = "drive"
    /\ UNCHANGED <<config, cyc_o, adr_o, ack_o, err_o, dat_o, previous_grant,
                   sel_r_ff, history, discipline>>

AllRequest(req) == \A i \in DOMAIN req : req[i] = 1

LastN(s, n) == IF Len(s) <= n THEN s ELSE SubSeq(s, Len(s) - n + 1, Len(s))

\* The masters present this cycle's requests: an idle master drives zeros.
MastersDrive ==
    /\ pc = "drive"
    /\ \E c \in [masters -> Bit], a \in [masters -> AdrValues] :
        /\ \A i \in masters : c[i] = 0 => a[i] = 0
        /\ cyc_o' = c
        /\ adr_o' = a
    /\ pc' = "respond"
    /\ UNCHANGED <<config, addresses, ack_o, err_o, dat_o, previous_grant,
                   sel_r_ff, prev_cyc_o, prev_sel, prev_dat_o, discipline>>
    /\ granted_hist' =
         IF AllRequest(cyc_o')
         THEN LastN(Append(granted_hist, rr_grant'), N)
         ELSE << >>

\* The slaves present this cycle's responses: a slave answers with ack_o or
\* with err_o, not with both.
SlavesRespond ==
    /\ pc = "respond"
    /\ \E a \in [Slaves -> Bit], e \in [Slaves -> Bit], d \in [Slaves -> DatValues] :
        /\ \A i \in Slaves : ~(a[i] = 1 /\ e[i] = 1)
        /\ ack_o' = a
        /\ err_o' = e
        /\ dat_o' = d
    /\ pc' = "settled"
    /\ UNCHANGED <<config, addresses, cyc_o, adr_o, previous_grant, sel_r_ff,
                   history, discipline>>

\* The clock edge: the arbiter's pointer advances when a grant was made, the
\* selection flip-flops latch _slave_sel (sync, register mode only), and
\* the ports wait for the values of the next cycle.
ClockEdge ==
    /\ pc = "settled"
    /\ previous_grant' = IF grant # NoGrant THEN grant ELSE previous_grant
    /\ sel_r_ff' = IF register THEN slave_sel ELSE sel_r_ff
    /\ prev_cyc_o' = cyc_o
    /\ prev_sel' = IF register THEN slave_sel ELSE prev_sel
    /\ prev_dat_o' =
         IF register
         THEN [i \in Slaves |-> IF slave_sel[i] = 1 THEN dat_o[i] ELSE 0]
         ELSE prev_dat_o
    /\ cyc_o' = Zeros(masters)
    /\ adr_o' = Zeros(masters)
    /\ ack_o' = Zeros(Slaves)
    /\ err_o' = Zeros(Slaves)
    /\ dat_o' = Zeros(Slaves)
    /\ pc' = "drive"
    /\ UNCHANGED <<config, addresses, granted_hist>>

Tick == ClockEdge /\ UNCHANGED discipline

Next ==
    \/ Construct
    \/ MastersDrive
    \/ SlavesRespond
    \/ Tick

Spec == Init /\ [][Next]_vars

---------------------------------------------------------------------------
(* The fabric among masters and slaves that keep the handshake: a master   *)
(* holds cyc and adr until it observes ack and then drops cyc for a cycle; *)
(* a slave drives ack only while its cyc_i is high, and no later than the  *)
(* MaxLatency-th consecutive cycle of cyc_i.                               *)

MaxLatency == 2

\* One address in the range of each slave of the two-slave table.
LiveAdr == {0, Pow2(AdrWidth) - 1}

LiveConfigs ==
    {c \in Configs : c.slaves = Pair(PyInt(0), PyInt(1)) /\ c.offset = 0}

InitLive ==
    /\ Init
    /\ [n |-> Cardinality(masters), slaves |-> slaves, offset |-> offset,
        register |-> register] \in LiveConfigs

LiveMastersDrive ==
    /\ MastersDrive
    /\ \A i \in masters :
        /\ hold[i].st = "hold" => cyc_o'[i] = 1 /\ adr_o'[i] = hold[i].adr
        /\ hold[i].st = "drop" => cyc_o'[i] = 0
        /\ cyc_o'[i] = 1 => adr_o'[i] \in LiveAdr

LiveSlavesRespond ==
    /\ SlavesRespond
    /\ err_o' = Zeros(Slaves)
    /\ dat_o' = Zeros(Slaves)
    /\ \A t \in Slaves :
        /\ ack_o'[t] = 1 => s_cyc_i[t] = 1
        /\ (s_cyc_i[t] = 1 /\ wait[t] >= MaxLatency - 1) => ack_o'[t] = 1

LiveTick ==
    /\ ClockEdge
    /\ hold' = [i \in masters |->
                  IF cyc_o[i] = 0 THEN Free
                  ELSE IF m_ack_i[i] = 1 THEN Drop
                  ELSE Holds(adr_o[i])]
    /\ wait' = [t \in Slaves |->
                  IF s_cyc_i[t] = 1 /\ ack_o[t] = 0 THEN wait[t] + 1 ELSE 0]

NextLive ==
    \/ Construct
    \/ LiveMastersDrive
    \/ LiveSlavesRespond
    \/ LiveTick

\* The clock runs: the fabric is synchronous, so the step enabled in each
\* phase of a cycle is eventually taken.
SpecLive == InitLive /\ [][NextLive]_vars /\ WF_vars(NextLive)

---------------------------------------------------------------------------
(* Vocabulary of the properties.                                           *)

\* The indices whose bit is set in a bit vector.
SetBits(f) == {i \in DOMAIN f : f[i] = 1}

AtMostOne(f) == Cardinality(SetBits(f)) <= 1

\* Address a lies in the range of pattern e: below the top `off` bits, the
\* next e.width bits of a spell e.value.
InPattern(a, e, off) ==
    LET window == a % Pow2(AdrWidth - off)
        span   == Pow2(AdrWidth - off - e.width)
    IN  e.value * span <= window /\ window < (e.value + 1) * span

\* The address map the constructor resolves from the slave list.
Resolved == [i \in Slaves |-> mkconst(slaves[i], maxbits(slaves))]

\* Two entries of the table match one and the same address.
OverlappingTable ==
    \E a \in 0 .. Pow2(AdrWidth) - 1 : \E i, j \in Slaves :
        i # j /\ InPattern(a, Resolved[i], offset) /\ InPattern(a, Resolved[j], offset)

\* The slaves whose configured pattern (Decoder.addresses) the trunk address,
\* the granted master's adr_o, lies in.
Matching ==
    LET adr == adr_o[rr_grant]
    IN  {t \in Slaves : InPattern(adr, addresses[t], offset)}

\* The external obligation: no ack_o/err_o from a slave whose cyc_i is low.
Violates(t) == (ack_o[t] = 1 \/ err_o[t] = 1) /\ s_cyc_i[t] = 0

Compliant == \A t \in Slaves : ~Violates(t)

---------------------------------------------------------------------------
(* C1: in every cycle of every fabric the constructor accepts, at most one *)
(* bit of _slave_sel and at most one bit of _slave_sel_r is set, and the   *)
(* grant designates one master.  The constructor accepts tables whose      *)
(* patterns overlap (see C7), and there two bits are set.                  *)
C1_MutualExclusion ==
    Constructed =>
        /\ AtMostOne(slave_sel)
        /\ AtMostOne(slave_sel_r)
        /\ rr_grant \in masters

(* C2: when all N masters hold cyc_o high, every window of N consecutive   *)
(* cycles grants every master at least once.                               *)
C2_Fairness ==
    (Constructed /\ Len(granted_hist) = N) =>
        {granted_hist[k] : k \in 1 .. N} = masters

C2_Witness ==
    /\ pc = "settled"
    /\ N = 3
    /\ Len(granted_hist) = 3
    /\ previous_grant # NoGrant
    /\ \E t \in Slaves : s_cyc_i[t] = 1 /\ ack_o[t] = 0

(* C3: whatever the rotation pointer, when no master requested in the      *)
(* previous cycle and exactly one master requests now, that master is      *)
(* granted in this evaluation.                                             *)
C3_Promptness ==
    (Constructed /\ SetBits(prev_cyc_o) = {}) =>
        \A i \in masters : SetBits(cyc_o) = {i} => (grant = i /\ rr_grant = i)

C3_Witness ==
    /\ pc = "settled"
    /\ N = 3
    /\ SetBits(prev_cyc_o) = {}
    /\ previous_grant = 0
    /\ SetBits(cyc_o) = {0}
    /\ rr_grant = 0

(* C4: when the trunk address lies in exactly one configured pattern, that *)
(* slave's cyc_i equals the granted master's cyc_o and every other cyc_i   *)
(* is 0; when it lies in no pattern, every cyc_i is 0.                     *)
C4_DecodeCorrectness ==
    Constructed =>
        LET matching == Matching
            cyc      == s_cyc_i
            granted  == cyc_o[rr_grant]
        IN  /\ Cardinality(matching) = 1 =>
                 \A t \in Slaves :
                     cyc[t] = (IF t \in matching THEN granted ELSE 0)
            /\ matching = {} => \A t \in Slaves : cyc[t] = 0

C4_Witness ==
    /\ pc = "settled"
    /\ register
    /\ Matching = {1}
    /\ cyc_o[rr_grant] = 1
    /\ s_cyc_i[1] = 1
    /\ s_cyc_i[0] = 0
    /\ sel_r_ff[0] = 1

(* C5: a master that is not the grantee sees ack_i = 0 and err_i = 0,      *)
(* whatever the slaves drive.                                              *)
C5_ResponseIsolation ==
    Constructed =>
        \A i \in masters : i # rr_grant => (m_ack_i[i] = 0 /\ m_err_i[i] = 0)

C5_Witness ==
    /\ pc = "settled"
    /\ \E i \in masters :
        /\ i # rr_grant
        /\ cyc_o[i] = 1
        /\ m_ack_i[i] = 0
    /\ shared_ack_i = 1
    /\ m_ack_i[rr_grant] = 1
    /\ \E t \in Slaves : s_cyc_i[t] = 1 /\ ack_o[t] = 1

\* Exactly slave t is selected by the bit vector f.
OneHot(f, t) == SetBits(f) = {t}

(* C6 as claimed: the data word X the one selected slave drives in cycle k *)
(* is what the granted master reads in cycle k (combinatorial decoder) or  *)
(* in cycle k+1 (registered decoder).  The registered case is stated for   *)
(* a cycle k in which a master held the trunk.                             *)
C6_RoundTripAsClaimed ==
    (Constructed /\ pc = "settled") =>
        \A t \in Slaves :
            /\ (~register /\ OneHot(slave_sel, t)) => m_dat_i[rr_grant] = dat_o[t]
            /\ (register /\ OneHot(prev_sel, t) /\ SetBits(prev_cyc_o) # {}) =>
                   m_dat_i[rr_grant] = prev_dat_o[t]

(* C6 as amended: with a combinatorial decoder the granted master reads in *)
(* cycle k the word the one selected slave drives in cycle k; with a       *)
(* registered decoder it reads in cycle k+1 the word that the slave        *)
(* selected in cycle k drives in cycle k+1.                                *)
C6_RoundTrip ==
    (Constructed /\ pc = "settled") =>
        \A t \in Slaves :
            /\ (~register /\ OneHot(slave_sel, t)) => m_dat_i[rr_grant] = dat_o[t]
            /\ (register /\ OneHot(prev_sel, t)) => m_dat_i[rr_grant] = dat_o[t]

C6_Witness ==
    /\ pc = "settled"
    /\ register
    /\ OneHot(prev_sel, 0)
    /\ OneHot(slave_sel, 1)
    /\ prev_dat_o[0] = 0
    /\ dat_o[0] # 0
    /\ dat_o[1] = 0
    /\ m_dat_i[rr_grant] = dat_o[0]

(* C7: a table with two patterns that both match some address is rejected  *)
(* by the constructor: the fabric is never constructed and never           *)
(* evaluated.                                                              *)
C7_OverlapRejected == OverlappingTable => pc = "new"

(* C8: while the granted master holds cyc_o with an address in no pattern, *)
(* _slave_sel is all-zero, no slave's cyc_i is asserted and, the slaves     *)
(* keeping ack_o/err_o low while their cyc_i is low, the granted master    *)
(* sees no ack_i.                                                          *)
C8_NoMatch ==
    (Constructed /\ cyc_o[rr_grant] = 1 /\ Matching = {}) =>
        /\ SetBits(slave_sel) = {}
        /\ \A t \in Slaves : s_cyc_i[t] = 0
        /\ Compliant => m_ack_i[rr_grant] = 0

C8_Witness ==
    /\ pc = "settled"
    /\ cyc_o[rr_grant] = 1
    /\ Matching = {}
    /\ Compliant
    /\ SetBits(sel_r_ff) # {}
    /\ \E t \in Slaves : dat_o[t] # 0
    /\ m_ack_i[rr_grant] = 0

\* Address 0x00000010 of the scenario at the model's width: the high bit
\* clear, a lower bit set.
ScenarioAdr == Pow2(AdrWidth - 1) - 1

ScenarioTable ==
    /\ offset = 0
    /\ ~register
    /\ addresses = Pair(Const(0, 1), Const(1, 1))

Requests(S) == [i \in masters |-> IF i \in S THEN 1 ELSE 0]

(* C9: three masters, arbiter in its initial state: masters 0 and 2        *)
(* request in cycle 1 and the grant is 0; master 0 then drops its request  *)
(* while 2 still requests in cycle 2 and the grant is 2; with grant 0,     *)
(* address 0x00000010, offset 0 and no register, slave A (high bit 0) has  *)
(* cyc_i asserted and slave B (high bit 1) has not.                        *)
C9_Scenario ==
    (Constructed /\ N = 3 /\ pc # "drive") =>
        /\ (previous_grant = NoGrant /\ cyc_o = Requests({0, 2})) => rr_grant = 0
        /\ (/\ prev_cyc_o = Requests({0, 2})
            /\ previous_grant = 0
            /\ cyc_o = Requests({2})) => rr_grant = 2
        /\ (/\ ScenarioTable
            /\ rr_grant = 0
            /\ cyc_o[0] = 1
            /\ adr_o[0] = ScenarioAdr) => (s_cyc_i[0] = 1 /\ s_cyc_i[1] = 0)

C9_Witness ==
    /\ pc = "settled"
    /\ N = 3
    /\ ScenarioTable
    /\ prev_cyc_o = Requests({0, 2})
    /\ previous_grant = 0
    /\ cyc_o = Requests({2})
    /\ rr_grant = 2
    /\ granted_hist = << >>

(* C10: a slave asserting ack_o or err_o while its cyc_i is low is a       *)
(* reported protocol violation: its ack_o/err_o is not merged into the     *)
(* trunk's ack_i/err_i, which carry the responses of the addressed slaves  *)
(* only.                                                                   *)
C10_ViolationNotMerged ==
    Constructed =>
        /\ shared_ack_i = (IF \E t \in Slaves : s_cyc_i[t] = 1 /\ ack_o[t] = 1 THEN 1 ELSE 0)
        /\ shared_err_i = (IF \E t \in Slaves : s_cyc_i[t] = 1 /\ err_o[t] = 1 THEN 1 ELSE 0)

---------------------------------------------------------------------------
\* Position of master i in the rotating order that starts right after the
\* pointer p: 0 for p+1, ..., N-1 for p itself (i itself before any grant).
RotationRank(i, p) == (i - p - 1 + N) % N

(* C11: whenever a request bit is set, the grant is the requesting master  *)
(* that comes first in the rotating order p+1, p+2, ..., p after the       *)
(* previous grant p; the previous grantee, still requesting, is granted    *)
(* again only when no other master requests.                               *)
C11_SelectionRule ==
    (Constructed /\ SetBits(cyc_o) # {}) =>
        LET g    == grant
            rank == IF g \in masters THEN RotationRank(g, previous_grant) ELSE N
        IN  /\ g \in masters
            /\ cyc_o[g] = 1
            /\ \A j \in masters :
                 cyc_o[j] = 1 => rank <= RotationRank(j, previous_grant)
            /\ g = previous_grant => SetBits(cyc_o) = {g}

C11_Witness ==
    /\ pc = "settled"
    /\ N = 3
    /\ previous_grant = 0
    /\ cyc_o = Requests({0, 2})
    /\ grant = 2
    /\ prev_cyc_o = Requests({0, 1, 2})

(* C12: in a cycle with no request bit set no master is granted and the    *)
(* clock edge leaves the rotation pointer unchanged; the pointer changes   *)
(* only at the clock edge of a cycle in which a grant is made, and then    *)
(* to that grant.                                                          *)
C12_IdleStep ==
    [][/\ pc = "settled" =>
            IF SetBits(cyc_o) = {}
            THEN grant = NoGrant /\ previous_grant' = previous_grant
            ELSE grant \in masters /\ previous_grant' = grant
       /\ pc # "settled" => previous_grant' = previous_grant]_vars

C12_Witness ==
    /\ pc = "settled"
    /\ SetBits(prev_cyc_o) = {}
    /\ SetBits(cyc_o) = {}
    /\ grant = NoGrant
    /\ previous_grant = 1

BitOf(x, k) == (x \div Pow2(k)) % 2

(* C13: slave_sel[i] is set exactly when the address bits                  *)
(* [AdrWidth - offset - w_i, AdrWidth - offset) equal, bit for bit, entry  *)
(* i's pattern, w_i being the entry's own width: a pattern constructed     *)
(* with a width keeps it and is not widened to the table's maximum.        *)
C13_MatchingRule ==
    Constructed =>
        LET adr == shared_adr_o
            sel == slave_sel
        IN  \A i \in Slaves :
                LET w  == addresses[i].width
                    lo == AdrWidth - offset - w
                IN  /\ ~slaves[i].isint => addresses[i] = slaves[i]
                    /\ sel[i] = 1 <=>
                           \A k \in 0 .. w - 1 :
                               BitOf(adr, lo + k) = BitOf(addresses[i].value, k)

C13_Witness ==
    /\ pc = "settled"
    /\ slaves = Pair(Const(0, 1), Const(2, 2))
    /\ addresses[0].width = 1
    /\ addresses[1].width = 2
    /\ offset = 0
    /\ shared_cyc_o = 1
    /\ shared_adr_o = ScenarioAdr
    /\ slave_sel[0] = 1
    /\ slave_sel[1] = 0

(* C14: with register set, _slave_sel_r in a cycle equals _slave_sel of    *)
(* the cycle before, while every slave's cyc_i is formed from the          *)
(* combinational _slave_sel of the present cycle; without register,        *)
(* _slave_sel_r equals _slave_sel in every cycle.                          *)
C14_RegisteredTiming ==
    Constructed =>
        /\ register => slave_sel_r = prev_sel
        /\ ~register => slave_sel_r = slave_sel
        /\ LET cyc_i   == s_cyc_i
               matched == IF shared_cyc_o = 1 THEN Matching ELSE {}
           IN  \A t \in Slaves : cyc_i[t] = 1 <=> t \in matched

C14_Witness ==
    /\ pc = "settled"
    /\ register
    /\ OneHot(prev_sel, 0)
    /\ OneHot(slave_sel, 1)
    /\ slave_sel_r = prev_sel
    /\ s_cyc_i[1] = 1
    /\ s_cyc_i[0] = 0

(* C15: every slave, selected or not, receives on its forward fields       *)
(* other than cyc the values the granted master drives (adr stands for     *)
(* them: one statement per name is generated for all of them alike), so    *)
(* the values driven by masters without the grant never reach a slave.     *)
C15_ForwardPath ==
    Constructed =>
        LET adr_i == s_adr_i
            adr   == adr_o[rr_grant]
        IN  \A t \in Slaves : adr_i[t] = adr

C15_Witness ==
    /\ pc = "settled"
    /\ cyc_o = Requests({0, 1})
    /\ rr_grant = 1
    /\ adr_o[0] # adr_o[1]
    /\ slave_sel[0] = 1
    /\ slave_sel[1] = 0
    /\ s_adr_i[0] = adr_o[1]
    /\ s_adr_i[1] = adr_o[1]

(* C16: in a cycle in which no slave drives ack or err while its cyc_i is  *)
(* low, the ORed ack (err) of the trunk equals the ack (err) of the one    *)
(* slave selected by _slave_sel, and is 0 when no slave is selected.       *)
C16_OrEqualsSelect ==
    (Constructed /\ Compliant) =>
        LET selected == SetBits(slave_sel)
        IN  /\ \A t \in Slaves :
                 selected = {t} =>
                     shared_ack_i = ack_o[t] /\ shared_err_i = err_o[t]
            /\ selected = {} => shared_ack_i = 0 /\ shared_err_i = 0

C16_Witness ==
    /\ pc = "settled"
    /\ Compliant
    /\ OneHot(slave_sel, 1)
    /\ ack_o[1] = 1
    /\ shared_ack_i = 1
    /\ shared_err_i = 0

(* C17: every master, granted or not, receives the trunk's dat_i           *)
(* unchanged, while the trunk's ack_i and err_i reach master i only when   *)
(* i is the grant and read 0 at every other master.                        *)
C17_BackRouting ==
    Constructed =>
        LET dat == shared_dat_i
            ack == shared_ack_i
            err == shared_err_i
            g   == rr_grant
            dat_i == m_dat_i
            ack_i == m_ack_i
            err_i == m_err_i
        IN  \A i \in masters :
                /\ dat_i[i] = dat
                /\ ack_i[i] = (IF i = g THEN ack ELSE 0)
                /\ err_i[i] = (IF i = g THEN err ELSE 0)

C17_Witness ==
    /\ pc = "settled"
    /\ rr_grant = 1
    /\ shared_dat_i # 0
    /\ shared_err_i = 1
    /\ m_dat_i[0] = shared_dat_i
    /\ m_err_i[0] = 0
    /\ m_err_i[1] = 1

(* C18: in every cycle at most one master observes ack_i asserted and at   *)
(* most one observes err_i asserted, and a master observing either is the  *)
(* current grantee.                                                        *)
C18_SingleCompletionOwner ==
    Constructed =>
        LET acked  == SetBits(m_ack_i)
            erred  == SetBits(m_err_i)
        IN  /\ Cardinality(acked) <= 1
            /\ Cardinality(erred) <= 1
            /\ acked \cup erred \subseteq {rr_grant}

C18_Witness ==
    /\ pc = "settled"
    /\ N = 3
    /\ cyc_o = Requests({0, 1, 2})
    /\ rr_grant = 2
    /\ shared_ack_i = 1
    /\ SetBits(m_ack_i) = {2}

\* Slave t is the one slave whose cyc_i is asserted, it asserts ack, and the
\* granted master observes ack.
AckFrom(t) ==
    /\ ack_o[t] = 1
    /\ SetBits(s_cyc_i) = {t}
    /\ m_ack_i[rr_grant] = 1

(* C19 as claimed: in every cycle in which the granted master observes ack *)
(* asserted by the slave whose cyc_i is asserted, the dat_i it observes in *)
(* that cycle is that slave's dat_o, with and without register, the first  *)
(* cycle after the selected slave changes included.                        *)
C19_CoherenceAsClaimed ==
    Constructed =>
        \A t \in Slaves : AckFrom(t) => m_dat_i[rr_grant] = dat_o[t]

(* C19: in every cycle in which the granted master observes ack asserted   *)
(* by the one slave whose cyc_i is asserted, the dat_i it observes in that *)
(* cycle is that slave's dat_o when the decoder is combinatorial, and with *)
(* register when that slave was also the one slave selected in the cycle   *)
(* before.                                                                 *)
C19_Coherence ==
    Constructed =>
        \A t \in Slaves :
            (AckFrom(t) /\ (register => OneHot(prev_sel, t))) =>
                m_dat_i[rr_grant] = dat_o[t]

C19_Witness ==
    /\ pc = "settled"
    /\ register
    /\ OneHot(prev_sel, 1)
    /\ AckFrom(1)
    /\ dat_o[1] = 0
    /\ dat_o[0] # 0
    /\ m_dat_i[rr_grant] = dat_o[1]

MaxMasters == Max(MasterCounts)

\* Master i holds cyc with an address in the range of a configured pattern.
Holding(i) ==
    /\ i \in masters
    /\ pc = "settled"
    /\ cyc_o[i] = 1
    /\ \E t \in Slaves : InPattern(adr_o[i], addresses[t], offset)

Granted(i) ==
    /\ i \in masters
    /\ pc = "settled"
    /\ cyc_o[i] = 1
    /\ rr_grant = i

Acked(i) ==
    /\ i \in masters
    /\ pc = "settled"
    /\ m_ack_i[i] = 1

\* Every slave answers in the very cycle its cyc_i is asserted.
PromptSlaves ==
    pc = "settled" => \A t \in Slaves : s_cyc_i[t] = 1 => ack_o[t] = 1

(* C20 as claimed: among slaves that acknowledge within MaxLatency cycles  *)
(* of cyc_i and masters that drop cyc after the ack they observe, every    *)
(* master holding cyc with a matching address is eventually granted and    *)
(* eventually observes ack, whatever the other masters request.            *)
C20_CompletionAsClaimed ==
    \A i \in 0 .. MaxMasters - 1 :
        /\ Holding(i) ~> Granted(i)
        /\ Holding(i) ~> Acked(i)

(* C20: among such masters and slaves, every master holding cyc with a     *)
(* matching address is eventually granted; it eventually observes ack      *)
(* when every slave answers in the very cycle its cyc_i is asserted.       *)
C20_Completion ==
    \A i \in 0 .. MaxMasters - 1 :
        /\ Holding(i) ~> Granted(i)
        /\ []PromptSlaves => (Holding(i) ~> Acked(i))

\* A master still holding its cycle, granted while the slave has left cyc_i
\* unanswered for a cycle, and another master obliged to drop cyc.
C20_Witness ==
    /\ pc = "settled"
    /\ N = 2
    /\ hold[0].st = "hold"
    /\ hold[1].st = "drop"
    /\ Holding(0)
    /\ Granted(0)
    /\ \E t \in Slaves : s_cyc_i[t] = 1 /\ wait[t] = 0 /\ ack_o[t] = 0

====
